---- MODULE Spec2Model ----
(***************************************************************************)
(* Model of LlamaDocIndexer.indexer.Indexer: the incremental build of a    *)
(* per-document index cache (menu.json, <hash>/data.json, <hash>/index),   *)
(* its reload at construction and the lazily rebuilt query engine.         *)
(*                                                                         *)
(* External collaborators are modelled by what the Indexer observes of     *)
(* them: md5 is an injective tag of the relative path, a sub-index and a   *)
(* summary are tags of the text they were built from, and an embedding     *)
(* call either returns or raises.                                          *)
(***************************************************************************)
EXTENDS Integers, Sequences, FiniteSets, TLC

\* ---------------------------------------------------------------- bounds
\* The largest num_workers a caller passes to build() besides the default.
MaxWorkers == 2

\* The last tick of the clock that stamps modification times: every write
\* or touch of a file takes one tick.
MaxTime == 2

\* An index folder the walk lists (one inside the root that is not named
\* .indices) grows with every pass: a pass indexes the data.json files the
\* pass before it wrote and writes a data.json for each. The deepest
\* nesting kept: the data.json of the data.json ... of a file of the tree.
MaxNest == 2

\* The most writes one file of such an index folder gets.
MaxStamp == 3

\* ------------------------------------------------------ the indexed tree
\* Paths of the indexed folder, as the path segments below folder_path.
\* the files of the root
RootFiles == {<<"a.txt">>, <<"p.pdf">>}

\* the sub-directories of the root
SubDirs == {".indices", "cache", "d", "r"}

\* the files below a sub-directory of the root, as the top-down walk
\* yields them: a directory's files before those of its sub-directory
DirWalk(dir) ==
    IF dir = ".indices" THEN << <<".indices", "menu.json">> >>
    ELSE IF dir = "cache" THEN << <<"cache", "menu.json">> >>
    ELSE IF dir = "d"
    THEN << <<"d", "b.txt">>, <<"d", "e", "c.txt">>, <<"d", "e", "g", "f.txt">> >>
    ELSE << <<"r", "e", "g", "h.txt">> >>

\* the files of the tree that no build pass wrote
TreeFiles ==
    RootFiles \cup UNION {{DirWalk(d)[i] : i \in 1..Len(DirWalk(d))} : d \in SubDirs}

\* the orders a directory listing may give the members of S in
Orderings(S) ==
    {s \in [1..Cardinality(S) -> S] :
        \A i, j \in 1..Cardinality(S) : i # j => s[i] # s[j]}

\* os.walk(folder_path), top-down: the root's files, then each
\* sub-directory's; the order of the entries of one directory is the file
\* system's and is not specified.
WalkOrders ==
    {rf \o DirWalk(ds[1]) \o DirWalk(ds[2]) \o DirWalk(ds[3]) \o DirWalk(ds[4]) :
        rf \in Orderings(RootFiles), ds \in Orderings(SubDirs)}

\* The files that are written, touched and removed while the Indexer runs.
Files == {<<"a.txt">>, <<"d", "b.txt">>}

\* File contents: an empty file, two UTF-8 texts, bytes that are not UTF-8.
Contents == {"", "t1", "t2", "bin"}

\* "index": None of indexer.py
None == "None"

\* os.sep
sep == "/"

\* Indexer("/r") with the default arguments; a path string is the sequence
\* of its separators and names.
folder_path == <<sep, "r">>

depth == 3

types == None

\* build(self, num_workers=8)
default_workers == 8

ignored_folders == {".indices"}

ignored_patterns == {}

\* ------------------------------------------------------- pure functions
\* the relative path as text
RECURSIVE Join(_)
Join(rel) ==
    IF Len(rel) = 1 THEN rel[1] ELSE rel[1] \o "/" \o Join(Tail(rel))

\* hashlib.md5(relative_path).hexdigest(): an injective tag of the path. It
\* is a key of the registry and the name of the artifact folder.
HexDigest(rel) == "md5(" \o Join(rel) \o ")"

\* os.path.basename
BaseName(rel) == rel[Len(rel)]

\* os.path.splitext(name)[1] of the names of the tree
Ext(rel) ==
    LET name == BaseName(rel)
    IN  IF name \in {"a.txt", "b.txt", "c.txt", "f.txt", "h.txt"} THEN ".txt"
        ELSE IF name = "p.pdf" THEN ".pdf"
        ELSE IF name \in {"menu.json", "data.json"} THEN ".json"
        ELSE ""

\* the relative path as a string: its names joined by os.sep
RelPath(rel) ==
    [i \in 1..(2 * Len(rel) - 1) |->
        IF i % 2 = 1 THEN rel[(i + 1) \div 2] ELSE sep]

\* os.path.join(root, file) of the walk
FilePath(rel) == folder_path \o <<sep>> \o RelPath(rel)

\* the root os.walk yields for the directory of the file
DirPath(rel) ==
    IF Len(rel) = 1 THEN folder_path
    ELSE folder_path \o <<sep>> \o RelPath(SubSeq(rel, 1, Len(rel) - 1))

\* "sub in s" of two strings
Contains(s, sub) ==
    \E i \in 1..(Len(s) - Len(sub) + 1) :
        SubSeq(s, i, i + Len(sub) - 1) = sub

\* s.replace(sub, ""): every occurrence of sub is removed, left to right
RECURSIVE Replace(_, _)
Replace(s, sub) ==
    IF Len(s) < Len(sub) THEN s
    ELSE IF SubSeq(s, 1, Len(sub)) = sub
    THEN Replace(SubSeq(s, Len(sub) + 1, Len(s)), sub)
    ELSE <<s[1]>> \o Replace(Tail(s), sub)

\* the names of s.split(os.sep)
Split(s) == {s[i] : i \in {j \in 1..Len(s) : s[j] # sep}}

\* file_path.replace(folder_path, "").count(os.sep)
PathDepth(rel) ==
    LET below == Replace(FilePath(rel), folder_path)
    IN  Cardinality({i \in 1..Len(below) : below[i] = sep})

has_ignore_folder(path) ==
    LET stripped == IF Contains(path, folder_path)
                    THEN Replace(path, folder_path) ELSE path
    IN  (Split(stripped) \cap ignored_folders) # {}

\* data.json of the artifact folder of hash h below the index folder ip,
\* line 248
DataFile(ip, h) == <<ip, h, "data.json">>

\* The data.json files of nesting n that passes over the index folder
\* cache can write: a file is registered when its directory holds no
\* ignored folder (line 148) and it is within the depth (line 158). The
\* files below <hash>/index are deeper than depth and never registered.
RECURSIVE Nested(_)
Nested(n) ==
    IF n = 0
    THEN {f \in TreeFiles : /\ ~has_ignore_folder(DirPath(f))
                            /\ PathDepth(f) <= depth}
    ELSE {DataFile("cache", HexDigest(f)) : f \in Nested(n - 1)}

ArtifactFiles == UNION {Nested(n) : n \in 1..MaxNest}

\* The files of the model: those of the tree and the data.json files of an
\* index folder the walk lists. The tree fs holds a record for every file
\* of TreeFiles and for the files of ArtifactFiles that have been written.
\* The artifact folders of an index folder named .indices are pruned at
\* line 148 together with everything below them, so their files are kept
\* in dataJson and indexStore only.
AllFiles == TreeFiles \cup ArtifactFiles

\* get_hash of the relative path, per file of the model (an explicit table)
path_hash == [f \in AllFiles |-> HexDigest(f)] @@ <<>>

PathHash(rel) == path_hash[rel]

\* The path tests of the walk, per file of the model: line 148 on the file's
\* directory, line 156 on the file's path, line 298 on its relative path.
root_ignored == [f \in AllFiles |-> has_ignore_folder(DirPath(f))]

file_depth == [f \in AllFiles |-> PathDepth(f)]

listed_ignored == [f \in AllFiles |-> has_ignore_folder(RelPath(f))]

\* is_plain_text: the file can be opened and its bytes decode as UTF-8
is_plain_text(disk, rel) == disk[rel].present /\ disk[rel].content # "bin"

is_supported_file(disk, rel) ==
    /\ types # None => Ext(rel) \in types
    /\ BaseName(rel) \notin ignored_patterns
    /\ is_plain_text(disk, rel)

\* read_text, lines 117-131: read_plain_text returns the decoded content,
\* read_pdf and read_xlsx the text a binary document holds, and any other
\* binary file raises ValueError.
read_text(disk, rel) ==
    IF is_plain_text(disk, rel) THEN disk[rel].content
    ELSE IF Ext(rel) \in {".pdf", ".xlsx"} THEN "text of " \o Ext(rel)
    ELSE "ValueError"

\* VectorStoreIndex.from_documents([Document(text)]), when it returns
generate_index(text) == "index:" \o text

\* str(engine.query("Please summarise this document.")), when it returns
generate_summary(index) == "summary of " \o index

\* dict helpers
Put(m, k, v) == [x \in (DOMAIN m) \cup {k} |-> IF x = k THEN v ELSE m[x]]

Drop(m, k) == [x \in (DOMAIN m) \ {k} |-> m[x]]

EmptyMap == [x \in {} |-> None]

\* ------------------------------------------------------------------ state
VARIABLES
    index_path,    \* self.index_path: the folder below the root that holds
                   \* menu.json and the artifact folders
    fs,            \* the indexed tree: file -> [present, mtime, content]
    now,           \* the clock os.path.getmtime values come from
    menuJson,      \* <index_path>/menu.json
    dataJson,      \* <index_path>/<hash>/data.json, per hash
    indexStore,    \* <index_path>/<hash>/index, per hash
    torn,          \* the files of the index folder a stopped write left
                   \* empty: menu.json, and per hash data.json
    alive,         \* an Indexer object exists (its constructor returned)
    menu,          \* self.menu
    indices,       \* self.indices
    query_engine,  \* self.query_engine
    pc,            \* position of the running call: idle, pool, merge, flush
    caller,        \* the public method that started the pass: build or query
    tasks,         \* build()'s tasks list (kept until the next pass starts)
    num_workers,   \* the threads of the running pass's pool, 0 outside a pass
    finished,      \* the running pass's tasks in the order they completed
    cursor,        \* position of "for result in results"
    ret,           \* outcome of the last pass: none, false, true, raised
    dropped,       \* hashes deleted at lines 194-197 by the last pass
    due,           \* hashes the last pass found indexed and out of date
    clean,         \* the last pass of this Indexer returned and the tree
                   \* is as that pass scanned it
    startedClean,  \* value of clean when the last pass started
    stale,         \* a pass returned True after query_engine was composed
    answered       \* the engine the last query() ran on: none, fresh, stale

vars == <<index_path, fs, now, menuJson, dataJson, indexStore, torn, alive, menu, indices,
          query_engine, pc, caller, tasks, num_workers, finished, cursor,
          ret, dropped, due, clean, startedClean, stale, answered>>

diskVars == <<index_path, menuJson, dataJson, indexStore, torn>>

\* every file of the index folder is whole
NoTorn == [menu |-> FALSE, data |-> {}]

\* data.json after open(data_path, "w") and before json.dump: no content
EmptyData == [name |-> "", path |-> <<>>, text |-> "", summary |-> ""]

\* ScanFile without line 196: an empty file's entry is deleted from the
\* registry only.
ScanFile_KeepArtifact(st, disk, rel) ==
    LET h == PathHash(rel)
        data == [name |-> BaseName(rel), path |-> rel,
                 text |-> None, summary |-> ""]
        modified == disk[rel].mtime
        known == h \in DOMAIN st.indices
        menu1 == IF known THEN st.menu
                 ELSE Put(st.menu, h, [name |-> data.name, path |-> data.path,
                                       modified |-> -1])
        indices1 == IF known THEN st.indices
                    ELSE Put(st.indices, h, [summary |-> data.summary,
                                             index |-> None])
        menu2 == Put(menu1, h, [menu1[h] EXCEPT !.modified = modified])
        text == read_text(disk, rel)
        task == [path_hash |-> h, index_folder |-> h,
                 data |-> [data EXCEPT !.text = text],
                 status |-> "pending", summary |-> None, index |-> None]
    IN  IF \/ ~disk[rel].present
           \/ root_ignored[rel]
           \/ ~is_supported_file(disk, rel)
           \/ file_depth[rel] > depth
        THEN st
        ELSE IF modified = menu1[h].modified
        THEN [st EXCEPT !.menu = menu1, !.indices = indices1]
        ELSE IF text = ""
        THEN [st EXCEPT !.menu = Drop(menu2, h),
                        !.indices = indices1,
                        !.dropped = @ \cup {h}]
        ELSE [st EXCEPT !.menu = menu2, !.indices = indices1,
                        !.tasks = Append(@, task)]

\* ------------------------------------------------- build(): the tree walk
\* One file of the walk, lines 148-212, on the pass state
\* st = [menu, indices, tasks, dropped].
ScanFile(st, disk, rel) ==
    LET h == PathHash(rel)
        data == [name |-> BaseName(rel), path |-> rel,
                 text |-> None, summary |-> ""]
        modified == disk[rel].mtime
        known == h \in DOMAIN st.indices
        menu1 == IF known THEN st.menu
                 ELSE Put(st.menu, h, [name |-> data.name, path |-> data.path,
                                       modified |-> -1])
        indices1 == IF known THEN st.indices
                    ELSE Put(st.indices, h, [summary |-> data.summary,
                                             index |-> None])
        menu2 == Put(menu1, h, [menu1[h] EXCEPT !.modified = modified])
        text == read_text(disk, rel)
        task == [path_hash |-> h, index_folder |-> h,
                 data |-> [data EXCEPT !.text = text],
                 status |-> "pending", summary |-> None, index |-> None]
    IN  IF \/ ~disk[rel].present
           \/ root_ignored[rel]
           \/ ~is_supported_file(disk, rel)
           \/ file_depth[rel] > depth
        THEN st
        ELSE IF modified = menu1[h].modified
        THEN [st EXCEPT !.menu = menu1, !.indices = indices1]
        ELSE IF text = ""
        THEN [st EXCEPT !.menu = Drop(menu2, h),
                        !.indices = Drop(indices1, h),
                        !.dropped = @ \cup {h}]
        ELSE [st EXCEPT !.menu = menu2, !.indices = indices1,
                        !.tasks = Append(@, task)]

\* The whole loop of lines 147-212 over the first n files of the walk ord.
RECURSIVE Scan(_, _, _, _)
Scan(st, disk, ord, n) ==
    IF n = 0 THEN st
    ELSE ScanFile(Scan(st, disk, ord, n - 1), disk, ord[n])

\* the walk order ord of the tree with the artifact folders of cache,
\* which os.walk lists after the files of cache, in the order ao
WithArtifacts(ord, ao) ==
    LET k == CHOOSE i \in 1..Len(ord) : ord[i] = <<"cache", "menu.json">>
    IN  IF ao = <<>> THEN ord
        ELSE SubSeq(ord, 1, k) \o ao \o SubSeq(ord, k + 1, Len(ord))

\* the orders os.walk may yield the files in
Walks(disk) ==
    LET Present(f) == disk[f].present
    IN  {SelectSeq(WithArtifacts(ord, ao), Present) :
            ord \in WalkOrders,
            ao \in Orderings((DOMAIN disk) \ TreeFiles)}

\* ------------------------------------------------------- query composer
\* get_file_list: the registry's paths that still pass the filter
get_file_list(m, disk) ==
    {m[h].path : h \in {k \in DOMAIN m :
        /\ ~listed_ignored[m[k].path]
        /\ is_supported_file(disk, m[k].path)}}

\* self.query_engine = NoEngine
NoEngine == [composed |-> FALSE, nodes |-> {}]

\* create_query_engine: one IndexNode per path whose index is not None
create_query_engine(paths, ix) ==
    [composed |-> TRUE,
     nodes |-> {[index_id |-> PathHash(p), obj |-> ix[PathHash(p)].index,
                 text |-> ix[PathHash(p)].summary] :
                   p \in {q \in paths : ix[PathHash(q)].index # None}}]

\* get_file_engine, lines 308-314: ValueError("File not indexed") when the
\* hash of the path is no key of self.menu, else the engine over that path.
get_file_engine(m, ix, p) ==
    IF PathHash(p) \notin DOMAIN m
    THEN [raised |-> TRUE, engine |-> NoEngine]
    ELSE [raised |-> FALSE, engine |-> create_query_engine({p}, ix)]

\* path.startswith(folder_path): the folder's string is a prefix of the
\* path's string (no name of the tree is a proper prefix of another, so
\* the prefix is compared name by name)
StartsWith(path, folder) ==
    /\ Len(RelPath(folder)) <= Len(RelPath(path))
    /\ \A i \in 1..Len(RelPath(folder)) : RelPath(path)[i] = RelPath(folder)[i]

\* get_folder_engine, lines 316-320: the engine over the registry's paths
\* that start with the folder
get_folder_engine(m, ix, folder) ==
    create_query_engine({m[h].path : h \in {k \in DOMAIN m :
                            StartsWith(m[k].path, folder)}}, ix)

\* ------------------------------------------------ the end of a build pass
\* build(), called by who, leaves with result r (false, true, raised) and
\* registry m, ix; when query() called it, lines 289-292 run in the same
\* step.
Return(who, r, m, ix) ==
    LET compose == who = "query" /\ r # "raised"
                   /\ (r = "true" \/ query_engine = NoEngine)
        stale1 == IF compose THEN FALSE
                  ELSE stale \/ (r = "true" /\ query_engine # NoEngine)
    IN  /\ pc' = "idle"
        /\ num_workers' = 0
        /\ finished' = <<>>
        /\ ret' = r
        /\ clean' = (r # "raised")
        /\ query_engine' = IF compose
                           THEN create_query_engine(get_file_list(m, fs), ix)
                           ELSE query_engine
        /\ stale' = stale1
        /\ answered' = IF who = "query" /\ r # "raised"
                       THEN (IF stale1 THEN "stale" ELSE "fresh")
                       ELSE answered

\* The files the walk reaches line 174 with: present, not under an ignored
\* folder, accepted by the filter and within the depth.
Walked(disk) ==
    {f \in DOMAIN disk : /\ disk[f].present
                         /\ ~root_ignored[f]
                         /\ is_supported_file(disk, f)
                         /\ file_depth[f] <= depth}

\* Hashes of the walked files that have a registry entry and a sub-index,
\* a stored time other than the file's and text to index.
StaleIndexed(m, ix, disk) ==
    {PathHash(f) : f \in {g \in Walked(disk) :
        /\ PathHash(g) \in DOMAIN m \cap DOMAIN ix
        /\ ix[PathHash(g)].index # None
        /\ m[PathHash(g)].modified # disk[g].mtime
        /\ read_text(disk, g) # ""}}

\* ---------------------------------------------------------------- actions
\* menu.json of the index folder ip, lines 63-70
MenuFile(ip) == <<ip, "menu.json">>

\* a JSON file written at time t: UTF-8 text that is not empty
JsonFile(t) == [present |-> TRUE, mtime |-> t, content |-> "json"]

\* a file that open(path, "w") has emptied at time t
EmptyFile(t) == [present |-> TRUE, mtime |-> t, content |-> ""]

\* a path with no file
Absent == [present |-> FALSE, mtime |-> 0, content |-> ""]

\* the number of writes file f of the index folder has had
Stamp(disk, f) == IF f \in DOMAIN disk THEN disk[f].mtime ELSE 0

\* The tree after file f of the index folder is written: it holds JSON
\* text and has a later modification time than before.
Written(disk, f) ==
    IF f \in AllFiles THEN Put(disk, f, JsonFile(Stamp(disk, f) + 1)) ELSE disk

\* the tree after open(f, "w") has emptied file f of the index folder
Emptied(disk, f) ==
    IF f \in AllFiles THEN Put(disk, f, EmptyFile(Stamp(disk, f) + 1)) ELSE disk

\* The pass with the tasks ts stays inside the files of the model: when
\* the walk lists the index folder, the data.json of every task is one of
\* ArtifactFiles and no file the pass writes has had MaxStamp writes.
InBounds(ts) ==
    ~root_ignored[MenuFile(index_path)] =>
        /\ Stamp(fs, MenuFile(index_path)) < MaxStamp
        /\ \A i \in 1..Len(ts) :
              /\ DataFile(index_path, ts[i].path_hash) \in ArtifactFiles
              /\ Stamp(fs, DataFile(index_path, ts[i].path_hash)) < MaxStamp

\* build(num_workers), lines 144-217, with num_workers one of ns: the walk,
\* then "return False" when it made no task, else the tasks go to a
\* ThreadPoolExecutor(max_workers=num_workers), which starts one thread per
\* submitted task until it has max_workers threads.
StartPass(who, ns) ==
    /\ alive /\ pc = "idle"
    /\ caller' = who
    /\ \E ord \in Walks(fs) :
       LET st == Scan([menu |-> menu, indices |-> indices,
                       tasks |-> <<>>, dropped |-> {}], fs, ord, Len(ord))
       IN  /\ InBounds(st.tasks)
           /\ menu' = st.menu
           /\ indices' = st.indices
           /\ tasks' = st.tasks
           /\ dropped' = st.dropped
           /\ due' = StaleIndexed(menu, indices, fs)
           /\ startedClean' = clean
           /\ cursor' = 1
           /\ IF Len(st.tasks) = 0
              THEN Return(who, "false", st.menu, st.indices)
              ELSE /\ pc' = "pool"
                   /\ \E n \in ns :
                        num_workers' = IF n < Len(st.tasks) THEN n
                                       ELSE Len(st.tasks)
                   /\ finished' = <<>>
                   /\ ret' = "none"
                   /\ clean' = FALSE
                   /\ UNCHANGED <<query_engine, stale, answered>>
    /\ UNCHANGED <<fs, now, diskVars, alive>>

\* a direct call of build(num_workers) by the caller
Build == StartPass("build", (1..MaxWorkers) \cup {default_workers})

\* query(), whose first statement is self.build()
Query == StartPass("query", {default_workers})

\* run_embedding_task on one task of the pool, lines 233-240: it returns
\* the task with its index and summary set.
TaskDone(i) ==
    LET index == generate_index(tasks[i].data.text)
    IN  [tasks[i] EXCEPT !.status = "done", !.index = index,
                         !.summary = generate_summary(index)]

\* run_embedding_task when generate_index or generate_summary raises
TaskFailed(i) == [tasks[i] EXCEPT !.status = "failed"]

\* the tasks a pool thread is running
Running == {i \in 1..Len(tasks) : tasks[i].status = "running"}

\* A free pool thread takes the next task of the executor's queue:
\* executor.map submits the tasks in list order and at most one task per
\* thread runs at a time.
StartTask(i) ==
    /\ pc = "pool"
    /\ i \in 1..Len(tasks) /\ tasks[i].status = "pending"
    /\ \A j \in 1..(i - 1) : tasks[j].status # "pending"
    /\ Cardinality(Running) < num_workers
    /\ tasks' = [tasks EXCEPT ![i].status = "running"]
    /\ UNCHANGED <<fs, now, diskVars, alive, menu, indices, query_engine, pc,
                   caller, num_workers, finished, cursor, ret, dropped, due,
                   clean, startedClean, stale, answered>>

\* A running task returns or raises, in any order; the with-block of lines
\* 218-221 is left, and its executor shut down, when the last task has.
FinishTask(i, ok) ==
    LET last == \A j \in 1..Len(tasks) :
                    j = i \/ tasks[j].status \in {"done", "failed"}
    IN  /\ pc = "pool"
        /\ i \in Running
        /\ tasks' = [tasks EXCEPT ![i] = IF ok THEN TaskDone(i) ELSE TaskFailed(i)]
        /\ finished' = Append(finished, i)
        /\ pc' = IF last THEN "merge" ELSE "pool"
        /\ num_workers' = IF last THEN 0 ELSE num_workers
        /\ UNCHANGED <<fs, now, diskVars, alive, menu, indices, query_engine,
                       caller, cursor, ret, dropped, due, clean, startedClean,
                       stale, answered>>

\* save_embedding_data, lines 242-260, of the result at the cursor
SaveEmbeddingData ==
    LET task == tasks[cursor]
        h == task.path_hash
    IN  /\ dataJson' = Put(dataJson, task.index_folder, task.data)
        /\ indices' = Put(indices, h, [summary |-> task.summary,
                                       index |-> task.index])
        /\ indexStore' = Put(indexStore, task.index_folder, task.index)
        /\ torn' = [torn EXCEPT !.data = @ \ {task.index_folder}]
        /\ fs' = Written(fs, DataFile(index_path, task.index_folder))

\* MergeStep with the loop over the results inside the with-block of the
\* executor: a result is saved as soon as its task has finished.
MergeStep_Eager ==
    /\ pc \in {"pool", "merge"} /\ cursor <= Len(tasks)
    /\ tasks[cursor].status \in {"done", "failed"}
    /\ IF tasks[cursor].status = "failed"
       THEN /\ Return(caller, "raised", menu, indices)
            /\ UNCHANGED <<fs, dataJson, indices, indexStore, torn, cursor>>
       ELSE /\ SaveEmbeddingData
            /\ cursor' = cursor + 1
            /\ pc' = IF cursor = Len(tasks) THEN "flush" ELSE pc
            /\ UNCHANGED <<query_engine, num_workers, finished, ret, clean,
                           stale, answered>>
    /\ UNCHANGED <<index_path, now, menuJson, alive, menu, caller, tasks,
                   dropped, due, startedClean>>

\* "for result in results: self.save_embedding_data(result)", one result:
\* executor.map re-raises the exception of a failed task when the loop
\* reaches it, and build() is left by that exception.
MergeStep ==
    /\ pc = "merge" /\ cursor <= Len(tasks)
    /\ IF tasks[cursor].status = "failed"
       THEN /\ Return(caller, "raised", menu, indices)
            /\ UNCHANGED <<fs, dataJson, indices, indexStore, torn, cursor>>
       ELSE /\ SaveEmbeddingData
            /\ cursor' = cursor + 1
            /\ pc' = IF cursor = Len(tasks) THEN "flush" ELSE "merge"
            /\ UNCHANGED <<query_engine, num_workers, finished, ret, clean,
                           stale, answered>>
    /\ UNCHANGED <<index_path, now, menuJson, alive, menu, caller, tasks,
                   dropped, due, startedClean>>

\* lines 226-231: update is True whenever a task was made; menu.json is
\* rewritten, which gives the file of the index folder a later
\* modification time, and build() returns True.
SaveMenu ==
    /\ pc = "flush"
    /\ menuJson' = menu
    /\ fs' = Written(fs, MenuFile(index_path))
    /\ torn' = [torn EXCEPT !.menu = FALSE]
    /\ Return(caller, "true", menu, indices)
    /\ UNCHANGED <<index_path, now, dataJson, indexStore, alive, menu, indices,
                   caller, tasks, cursor, dropped, due, startedClean>>

\* __init__ over the index folder holding menu.json mj, the data.json files
\* dj, the sub-indexes ist and the emptied files tn raises: json.load of
\* an empty menu.json (line 66) or data.json (line 95) raises
\* JSONDecodeError; deleting a key of self.menu inside "for path_hash in
\* self.menu" (lines 88-92) makes the loop raise RuntimeError when a
\* data.json is missing; load_index raises on an index folder that is
\* missing (line 99).
LoadRaises(mj, dj, ist, tn) ==
    \/ tn.menu
    \/ \E h \in DOMAIN mj :
          \/ h \notin DOMAIN dj
          \/ h \in tn.data
          \/ h \notin DOMAIN ist

\* load_indices, lines 86-100, when it does not raise
load_indices(mj, dj, ist) ==
    [h \in DOMAIN mj |-> [summary |-> dj[h].summary, index |-> ist[h]]]

\* A new Indexer is constructed over the index folder (mj, dj, ist, tn):
\* __init__ and initiate, lines 39-72.
Construct(mj, dj, ist, tn) ==
    /\ alive' = ~LoadRaises(mj, dj, ist, tn)
    /\ menu' = IF LoadRaises(mj, dj, ist, tn) THEN EmptyMap ELSE mj
    /\ indices' = IF LoadRaises(mj, dj, ist, tn) THEN EmptyMap
                  ELSE load_indices(mj, dj, ist)
    /\ query_engine' = NoEngine
    /\ pc' = "idle"
    /\ caller' = "build"
    /\ tasks' = <<>>
    /\ num_workers' = 0
    /\ finished' = <<>>
    /\ cursor' = 1
    /\ ret' = "none"
    /\ dropped' = {}
    /\ due' = {}
    /\ startedClean' = FALSE
    /\ clean' = FALSE
    /\ stale' = FALSE
    /\ answered' = "none"

\* The process ends between two statements that write, at any point of its
\* life, and a new Indexer is constructed over the same folders.
Restart ==
    /\ Construct(menuJson, dataJson, indexStore, torn)
    /\ UNCHANGED <<fs, now, diskVars>>

\* The process ends inside save_embedding_data's write of data.json, after
\* open(data_path, "w") has emptied the file and before json.dump (lines
\* 249-250), and a new Indexer is constructed.
StopInDataJson ==
    /\ pc = "merge" /\ cursor <= Len(tasks)
    /\ tasks[cursor].status = "done"
    /\ LET h == tasks[cursor].index_folder
           dj == Put(dataJson, h, EmptyData)
           tn == [torn EXCEPT !.data = @ \cup {h}]
       IN  /\ dataJson' = dj
           /\ torn' = tn
           /\ fs' = Emptied(fs, DataFile(index_path, h))
           /\ Construct(menuJson, dj, indexStore, tn)
    /\ UNCHANGED <<index_path, now, menuJson, indexStore>>

\* The process ends inside save_embedding_data after data.json is written
\* and closed (line 250) and before save_index (line 260), and a new
\* Indexer is constructed.
StopBeforeSaveIndex ==
    /\ pc = "merge" /\ cursor <= Len(tasks)
    /\ tasks[cursor].status = "done"
    /\ LET h == tasks[cursor].index_folder
           dj == Put(dataJson, h, tasks[cursor].data)
           tn == [torn EXCEPT !.data = @ \ {h}]
       IN  /\ dataJson' = dj
           /\ torn' = tn
           /\ fs' = Written(fs, DataFile(index_path, h))
           /\ Construct(menuJson, dj, indexStore, tn)
    /\ UNCHANGED <<index_path, now, menuJson, indexStore>>

\* The process ends inside the write of menu.json, after open(menu_path,
\* "w") has emptied the file and before json.dump (lines 229-230), and a
\* new Indexer is constructed.
StopInMenuJson ==
    /\ pc = "flush"
    /\ LET tn == [torn EXCEPT !.menu = TRUE]
       IN  /\ menuJson' = EmptyMap
           /\ torn' = tn
           /\ fs' = Emptied(fs, MenuFile(index_path))
           /\ Construct(EmptyMap, dataJson, indexStore, tn)
    /\ UNCHANGED <<index_path, now, dataJson, indexStore>>

\* ------------------------------------------------ the tree changes

\* A file is created or rewritten with new content.
WriteFile(f, c) ==
    /\ pc = "idle"
    /\ now < MaxTime
    /\ ~fs[f].present \/ fs[f].content # c
    /\ now' = now + 1
    /\ fs' = [fs EXCEPT ![f] = [present |-> TRUE, mtime |-> now + 1,
                                content |-> c]]
    /\ clean' = FALSE
    /\ UNCHANGED <<diskVars, alive, menu, indices, query_engine, pc, caller,
                   tasks, num_workers, finished, cursor, ret, dropped, due, startedClean, stale,
                   answered>>

\* A file's modification time changes, its content does not.
TouchFile(f) ==
    /\ pc = "idle"
    /\ fs[f].present /\ now < MaxTime
    /\ now' = now + 1
    /\ fs' = [fs EXCEPT ![f].mtime = now + 1]
    /\ clean' = FALSE
    /\ UNCHANGED <<diskVars, alive, menu, indices, query_engine, pc, caller,
                   tasks, num_workers, finished, cursor, ret, dropped, due, startedClean, stale,
                   answered>>

\* A file is removed from the tree.
RemoveFile(f) ==
    /\ pc = "idle"
    /\ fs[f].present
    /\ fs' = [fs EXCEPT ![f] = Absent]
    /\ clean' = FALSE
    /\ UNCHANGED <<now, diskVars, alive, menu, indices, query_engine, pc, caller,
                   tasks, num_workers, finished, cursor, ret, dropped, due, startedClean, stale,
                   answered>>

\* ------------------------------------------------------- specification
\* Indexer(folder_path) over an empty tree and a fresh index folder:
\* initiate writes an empty menu.json.
Init ==
    /\ index_path = ".indices"
    /\ fs = [f \in TreeFiles |-> IF f = MenuFile(".indices") THEN JsonFile(0)
                                  ELSE Absent]
    /\ now = 0
    /\ menuJson = EmptyMap
    /\ dataJson = EmptyMap
    /\ indexStore = EmptyMap
    /\ torn = NoTorn
    /\ alive = TRUE
    /\ menu = EmptyMap
    /\ indices = EmptyMap
    /\ query_engine = NoEngine
    /\ pc = "idle"
    /\ caller = "build"
    /\ tasks = <<>>
    /\ num_workers = 0
    /\ finished = <<>>
    /\ cursor = 1
    /\ ret = "none"
    /\ dropped = {}
    /\ due = {}
    /\ clean = FALSE
    /\ startedClean = FALSE
    /\ stale = FALSE
    /\ answered = "none"

Next ==
    \/ Build
    \/ Query
    \/ \E i \in 1..Len(tasks) : StartTask(i)
    \/ \E i \in 1..Len(tasks), ok \in BOOLEAN : FinishTask(i, ok)
    \/ MergeStep
    \/ SaveMenu
    \/ Restart
    \/ StopInDataJson
    \/ StopBeforeSaveIndex
    \/ StopInMenuJson
    \/ \E f \in Files, c \in Contents : WriteFile(f, c)
    \/ \E f \in Files : TouchFile(f)
    \/ \E f \in Files : RemoveFile(f)

Spec == Init /\ [][Next]_vars

\* Indexer(folder_path, index_path=<root>/cache) over a tree that holds
\* the document a.txt and does not change: initiate has written an empty
\* menu.json into the folder, which the walk of build() lists.
InitCache ==
    /\ index_path = "cache"
    /\ fs = [f \in TreeFiles |->
               IF f = MenuFile("cache") THEN JsonFile(1)
               ELSE IF f = <<"a.txt">>
               THEN [present |-> TRUE, mtime |-> 1, content |-> "t1"]
               ELSE Absent]
    /\ now = 1
    /\ menuJson = EmptyMap
    /\ dataJson = EmptyMap
    /\ indexStore = EmptyMap
    /\ torn = NoTorn
    /\ alive = TRUE
    /\ menu = EmptyMap
    /\ indices = EmptyMap
    /\ query_engine = NoEngine
    /\ pc = "idle"
    /\ caller = "build"
    /\ tasks = <<>>
    /\ num_workers = 0
    /\ finished = <<>>
    /\ cursor = 1
    /\ ret = "none"
    /\ dropped = {}
    /\ due = {}
    /\ clean = FALSE
    /\ startedClean = FALSE
    /\ stale = FALSE
    /\ answered = "none"

\* the passes of the Indexer and the stops of its process; nothing else
\* writes to the tree
NextCache ==
    \/ Build
    \/ Query
    \/ \E i \in 1..Len(tasks) : StartTask(i)
    \/ \E i \in 1..Len(tasks), ok \in BOOLEAN : FinishTask(i, ok)
    \/ MergeStep
    \/ SaveMenu
    \/ Restart
    \/ StopInDataJson
    \/ StopBeforeSaveIndex
    \/ StopInMenuJson

SpecCache == InitCache /\ [][NextCache]_vars

\* ------------------------------------- first build over a given tree
\* The most document files a drawn tree has.
MaxTree == 3

\* what document f of a drawn tree holds: ca is drawn for a.txt, cp for
\* p.pdf, the other documents hold text
TreeContent(f, ca, cp) ==
    IF f = <<"a.txt">> THEN ca
    ELSE IF f = <<"p.pdf">> THEN cp
    ELSE IF f \in {<<"d", "b.txt">>, <<"d", "e", "g", "f.txt">>} THEN "t2"
    ELSE "t1"

\* Indexer(folder_path, index_path=ip) over a tree that does not change:
\* index_path is the default <root>/.indices or <root>/cache, and initiate
\* has written an empty menu.json into it.
InitTree ==
    /\ index_path \in {".indices", "cache"}
    /\ \E docs \in SUBSET (TreeFiles \ {MenuFile(".indices"), MenuFile("cache")}),
          ca \in {"t1", "", "bin"}, cp \in {"bin", "t1"} :
          /\ Cardinality(docs) <= MaxTree
          /\ fs = [f \in TreeFiles |->
                     IF f = MenuFile(index_path) THEN JsonFile(1)
                     ELSE IF f \in docs
                     THEN [present |-> TRUE, mtime |-> 1,
                           content |-> TreeContent(f, ca, cp)]
                     ELSE Absent]
    /\ now = 1
    /\ menuJson = EmptyMap
    /\ dataJson = EmptyMap
    /\ indexStore = EmptyMap
    /\ torn = NoTorn
    /\ alive = TRUE
    /\ menu = EmptyMap
    /\ indices = EmptyMap
    /\ query_engine = NoEngine
    /\ pc = "idle"
    /\ caller = "build"
    /\ tasks = <<>>
    /\ num_workers = 0
    /\ finished = <<>>
    /\ cursor = 1
    /\ ret = "none"
    /\ dropped = {}
    /\ due = {}
    /\ clean = FALSE
    /\ startedClean = FALSE
    /\ stale = FALSE
    /\ answered = "none"

\* The index folder is as initiate made it: an empty menu.json and no
\* file of an artifact folder, and the Indexer holds no entry.
Fresh ==
    /\ menuJson = EmptyMap /\ dataJson = EmptyMap /\ indexStore = EmptyMap
    /\ torn = NoTorn
    /\ menu = EmptyMap

\* the first build() over the index folder
FirstBuild == Fresh /\ Build

\* the first query() over the index folder
FirstQuery == Fresh /\ Query

NextTree ==
    \/ FirstBuild
    \/ FirstQuery
    \/ \E i \in 1..Len(tasks) : StartTask(i)
    \/ \E i \in 1..Len(tasks), ok \in BOOLEAN : FinishTask(i, ok)
    \/ MergeStep
    \/ SaveMenu
    \/ Restart
    \/ StopInDataJson
    \/ StopBeforeSaveIndex
    \/ StopInMenuJson

SpecTree == InitTree /\ [][NextTree]_vars

\* ------------------------------------------------------------- properties
\* a step that starts a build pass (the walk of build())
PassStarts == Build \/ Query

\* a step by which build() returns or raises
PassEnds == (PassStarts \/ MergeStep \/ SaveMenu) /\ pc' = "idle"

\* the position in tasks of the task of hash h, 0 when there is none
TaskOf(h) ==
    IF \E i \in 1..Len(tasks) : tasks[i].path_hash = h
    THEN CHOOSE i \in 1..Len(tasks) : tasks[i].path_hash = h
    ELSE 0

\* save_embedding_data has run on task i of the pass (the loop of lines
\* 223-224 has passed it) and its result is what is stored
Merged(i) ==
    LET h == tasks[i].path_hash
    IN  /\ tasks[i].status = "done"
        /\ i < cursor
        /\ h \in DOMAIN indices /\ indices[h].index = tasks[i].index
        /\ h \in DOMAIN dataJson /\ dataJson[h] = tasks[i].data
        /\ h \in DOMAIN indexStore /\ indexStore[h] = tasks[i].index

\* C1: idempotence of build. A pass started on an Indexer whose previous
\* pass returned, with no change of the tree since, returns False from its
\* walk and leaves menu.json as it was.
C1_Idempotent ==
    [][(clean /\ PassStarts) =>
          (pc' = "idle" /\ ret' = "false" /\ menuJson' = menuJson)]_vars

\* C2: deletion semantics. After a completed pass over the tree as it is,
\* a file that is not on disk has no entry in menu.json and no sub-index
\* reachable through the registry and the artifact map.
C2_DeletedFileForgotten ==
    (pc = "idle" /\ alive /\ clean) =>
        \A f \in Files : ~fs[f].present =>
            LET h == PathHash(f)
            IN  /\ h \notin DOMAIN menuJson
                /\ ~(/\ h \in DOMAIN menu \cap DOMAIN indices
                     /\ indices[h].index # None)

\* C3: staleness detection. In the walk an indexed file whose time equals the
\* stored time keeps its entry and artifact and gets no task; when the pass
\* ends, every indexed file whose time differed (and that has text) has been
\* rebuilt: build returned True, its task ran and was merged, and the stored
\* time is the file's time.
C3_StaleIffRebuilt ==
    [][/\ PassStarts =>
            \A f \in Walked(fs) :
                LET h == PathHash(f)
                IN  (/\ h \in DOMAIN menu \cap DOMAIN indices
                     /\ indices[h].index # None
                     /\ menu[h].modified = fs[f].mtime)
                    => /\ h \in DOMAIN menu' /\ menu'[h] = menu[h]
                       /\ h \in DOMAIN indices' /\ indices'[h] = indices[h]
                       /\ \A i \in 1..Len(tasks') : tasks'[i].path_hash # h
       /\ PassEnds =>
            \A f \in Walked(fs) :
                LET h == PathHash(f)
                IN  h \in due' =>
                      /\ ret' = "true"
                      /\ h \in DOMAIN menu' /\ menu'[h].modified = fs[f].mtime
                      /\ \E i \in 1..Len(tasks') :
                            tasks'[i].path_hash = h /\ Merged(i)'
      ]_vars

\* C4: query freshness. No query() runs on an engine that was composed
\* before a build pass that returned True.
C4_QueryFresh == answered # "stale"

\* C5: registry/artifact invariant. Between passes every hash of the
\* registry, in memory and in menu.json, has a data.json and a sub-index.
C5_EntryHasArtifact ==
    (pc = "idle" /\ alive) =>
        /\ \A h \in DOMAIN menu :
              /\ h \in DOMAIN indices /\ indices[h].index # None
              /\ h \in DOMAIN dataJson /\ h \in DOMAIN indexStore
        /\ \A h \in DOMAIN menuJson :
              h \in DOMAIN dataJson /\ h \in DOMAIN indexStore

\* the persisted entries whose data.json exists
Healed(m) == [h \in {k \in DOMAIN m : k \in DOMAIN dataJson} |-> m[h]]

\* C6: self-healing load. Constructing an Indexer over a persisted menu.json
\* does not raise and leaves exactly the entries whose data.json exists.
C6_SelfHealingLoad ==
    [][(Restart /\ torn = NoTorn /\ DOMAIN dataJson = DOMAIN indexStore)
          => (alive' /\ menu' = Healed(menuJson))]_vars

\* C7: failure isolation. When a task of a pass failed, the pass still
\* returns, every other task of the pass is merged and persisted, and
\* menu.json holds the registry.
C7_FailureIsolated ==
    (/\ pc = "idle" /\ ret # "none"
     /\ \E i \in 1..Len(tasks) : tasks[i].status = "failed")
    => /\ ret # "raised"
       /\ \A i \in 1..Len(tasks) : tasks[i].status # "failed" => Merged(i)
       /\ menuJson = menu

\* C8: flush on change. A pass whose walk added, removed or re-timed a
\* registry entry ends, when it returns, by writing the in-memory registry
\* to menu.json; a pass that changed no entry leaves menu.json alone.
C8_MenuFlushed ==
    [][/\ (PassStarts /\ pc' = "idle") =>
            IF menu' # menu THEN menuJson' = menu' ELSE menuJson' = menuJson
       /\ SaveMenu => menuJson' = menu'
      ]_vars

\* C9: empty extraction. A candidate whose text was empty has no registry
\* entry, no in-memory artifact, no data.json and no stored sub-index left,
\* and no task of the pass.
C9_EmptyDropped ==
    \A h \in dropped :
        /\ h \notin (DOMAIN menu \cup DOMAIN indices)
        /\ h \notin (DOMAIN dataJson \cup DOMAIN indexStore)
        /\ TaskOf(h) = 0

\* C10: artifact round trip. After a pass that returned True, the summary
\* in each rebuilt document's data.json is the summary held in memory, which
\* is what load_indices would restore.
C10_SummaryRoundTrip ==
    (pc = "idle" /\ ret = "true") =>
        \A i \in 1..Len(tasks) :
            LET h == tasks[i].path_hash
            IN  /\ h \in DOMAIN dataJson /\ h \in DOMAIN indices
                /\ load_indices(menuJson, dataJson, indexStore)[h].summary
                       = indices[h].summary

\* the first build() has returned and every file the walk accepts has text
FirstBuildReturned ==
    /\ pc = "idle" /\ ret \in {"true", "false"}
    /\ \A f \in Walked(fs) : read_text(fs, f) # ""

\* the registry and the index folder hold exactly the walked files, each
\* with the file's modification time, a data.json and its sub-index
FirstBuildResult ==
    /\ ret = "true"
    /\ DOMAIN menu = {PathHash(f) : f \in Walked(fs)}
    /\ menuJson = menu
    /\ \A f \in Walked(fs) :
          /\ menu[PathHash(f)].path = f
          /\ menu[PathHash(f)].modified = fs[f].mtime
          /\ PathHash(f) \in DOMAIN dataJson
          /\ PathHash(f) \in DOMAIN indexStore
          /\ indexStore[PathHash(f)] = generate_index(read_text(fs, f))

\* C11: after a first build over a fresh index folder (the default one or
\* a caller-supplied one inside the root) and a tree with at least one
\* eligible, within-depth file, all of them with non-empty text, the
\* registry in memory and in menu.json has exactly one entry per such
\* file, keyed by the hash of its relative path, with the file's
\* modification time, every entry has its data.json and sub-index on disk,
\* and build returned True.
C11_FirstBuild ==
    (FirstBuildReturned /\ Walked(fs) # {}) => FirstBuildResult

\* C12: whether the index folder is the default <root>/.indices or a
\* caller-supplied folder inside the root, no file under the index folder
\* is ever a registry entry or a build task of a pass.
C12_IndexFolderNotIndexed ==
    /\ \A h \in DOMAIN menu : menu[h].path[1] # index_path
    /\ \A i \in 1..Len(tasks) : tasks[i].data.path[1] # index_path

\* C13: a file the walk of a build pass hands to the path filter is
\* accepted exactly when it passes the allow-list and the ignore patterns
\* and either decodes as UTF-8 or has the extension of a format extractor
\* (.pdf, .xlsx); an accepted file is registered when it is within the
\* depth and has text, and has an extraction handler in read_text.
C13_BinaryEligibility ==
    \A f \in DOMAIN fs :
        (fs[f].present /\ ~root_ignored[f] /\ pc = "pool") =>
            /\ is_supported_file(fs, f) <=>
                    /\ types # None => Ext(f) \in types
                    /\ BaseName(f) \notin ignored_patterns
                    /\ is_plain_text(fs, f) \/ Ext(f) \in {".pdf", ".xlsx"}
            /\ is_supported_file(fs, f) => read_text(fs, f) # "ValueError"
            /\ (is_supported_file(fs, f) /\ file_depth[f] <= depth
                    /\ read_text(fs, f) # "") <=> PathHash(f) \in DOMAIN menu

\* C15: depth being the number of separators of the file's path below the
\* root (one per segment of the relative path), an eligible file deeper
\* than the maximum never has a registry entry, and once a pass has walked
\* the tree an eligible file with text at exactly the maximum has one.
C15_DepthBound ==
    \A f \in DOMAIN fs :
        (fs[f].present /\ ~root_ignored[f] /\ is_supported_file(fs, f)) =>
            /\ Len(f) > depth => PathHash(f) \notin DOMAIN menu
            /\ (Len(f) = depth /\ read_text(fs, f) # "" /\ pc = "pool")
                    => PathHash(f) \in DOMAIN menu

\* C14: between passes get_file_engine(p) raises "not indexed" exactly when
\* the hash of p is no registry key, and for a registry key it returns an
\* engine of exactly one retrievable unit: the sub-index stored under p's
\* hash, with its summary.
C14_FileEngine ==
    (alive /\ pc = "idle") =>
        \A p \in AllFiles :
            LET h == PathHash(p)
                r == get_file_engine(menu, indices, p)
            IN  IF h \notin DOMAIN menu THEN r.raised
                ELSE /\ ~r.raised
                     /\ r.engine.nodes =
                            {[index_id |-> h, obj |-> indices[h].index,
                              text |-> indices[h].summary]}
                     /\ indices[h].index # None

\* C16: between passes a registry entry holds the file's current
\* modification time only if the document's rebuild succeeded, that is the
\* sub-index held for it is the one built from the file's current text; an
\* entry whose build task failed still differs from the file's time.
C16_ModifiedOnSuccess ==
    (alive /\ pc = "idle") =>
        \A f \in Walked(fs) :
            (/\ PathHash(f) \in DOMAIN menu
             /\ menu[PathHash(f)].modified = fs[f].mtime)
                => indices[PathHash(f)].index = generate_index(read_text(fs, f))

\* a task of the pass is waiting for a pool thread or running on one
PoolBusy ==
    \E i \in 1..Len(tasks) : tasks[i].status \in {"pending", "running"}

\* C17: while a build task of the pass is pending or running, no step of
\* the Indexer changes the registry, the artifact map, a data.json, a
\* sub-index folder, menu.json or a file of the tree, and a step changes
\* at most one task record; so the merge and the menu.json write run
\* after all tasks have completed, for every worker count and
\* interleaving.
C17_MergeAfterFanOut ==
    [][(PoolBusy /\ ~Restart) =>
          /\ UNCHANGED <<menu, indices, menuJson, dataJson, indexStore, fs>>
          /\ Len(tasks') = Len(tasks)
          /\ Cardinality({j \in 1..Len(tasks) : tasks'[j] # tasks[j]}) <= 1]_vars

\* tasks ran at the same time, the first of three finished last, and the
\* merge has saved the first result
C17_Witness ==
    /\ pc = "merge" /\ cursor = 2
    /\ Len(tasks) = 3 /\ finished = <<2, 3, 1>>

\* C18: whatever order the tasks of a pass completed in, what the merge
\* has stored for a task, in memory and in its folder, is the sub-index
\* and summary built from the text of that task's own file, which is what
\* running the tasks one after the other stores.
C18_OwnResult ==
    \A i \in 1..Len(tasks) :
        (pc \in {"merge", "flush"} /\ i < cursor) =>
            LET h == tasks[i].path_hash
                text == read_text(fs, tasks[i].data.path)
            IN  /\ h = PathHash(tasks[i].data.path)
                /\ indices[h].index = generate_index(text)
                /\ indices[h].summary = generate_summary(generate_index(text))
                /\ indexStore[h] = generate_index(text)
                /\ dataJson[h].path = tasks[i].data.path
                /\ dataJson[h].text = text
                /\ dataJson[h].summary = generate_summary(generate_index(text))

\* C19: on a constructed Indexer, at every point of its life (after
\* construction, during and after every pass, a raised one included), the
\* registry and the artifact map have the same keys, each the hash of its
\* entry's path, so an engine composed over the registry's paths finds
\* every hash it looks up.
C19_SameKeys ==
    alive =>
        /\ DOMAIN menu = DOMAIN indices
        /\ \A h \in DOMAIN menu : PathHash(menu[h].path) = h
        /\ \A p \in get_file_list(menu, fs) : PathHash(p) \in DOMAIN indices
        /\ \A folder \in {<<"d">>, <<"d", "e">>, <<"r">>} :
              get_folder_engine(menu, indices, folder).composed
        /\ \A p \in AllFiles :
              \/ get_file_engine(menu, indices, p).raised
              \/ get_file_engine(menu, indices, p).engine.composed

\* a pass has raised part-way, another has dropped an emptied file, and
\* the registry is not empty
C19_Witness ==
    /\ alive /\ pc = "idle" /\ ret = "raised"
    /\ dropped # {}
    /\ DOMAIN menu # {}

\* the process stops inside a pass at a point before the menu.json write
\* of line 229: while the pool runs, inside or between the calls of
\* save_embedding_data, or after the last of them
StoppedBeforeMenuWrite ==
    /\ pc \in {"pool", "merge", "flush"}
    /\ Restart \/ StopInDataJson \/ StopBeforeSaveIndex

\* menu.json reports walked file f up to date: a new Indexer would load
\* the entry and its pass would skip the file at line 188
ReportedUpToDate(f) ==
    /\ PathHash(f) \in DOMAIN menuJson
    /\ menuJson[PathHash(f)].modified = fs[f].mtime

\* C20: when the process stops inside a pass before the menu.json write,
\* the new Indexer is constructed and every task of the interrupted pass
\* is a candidate of its next pass (no entry, or a stored time other than
\* the file's); and
\* menu.json never reports a walked file up to date unless the persisted
\* sub-index is the one built from the file's current text.
C20_CrashRecovery ==
    /\ [](\A f \in Walked(fs) :
            ReportedUpToDate(f) =>
                /\ PathHash(f) \in DOMAIN indexStore
                /\ indexStore[PathHash(f)] = generate_index(read_text(fs, f)))
    /\ [][StoppedBeforeMenuWrite =>
            /\ alive'
            /\ \A i \in 1..Len(tasks) :
                  \/ tasks[i].path_hash \notin DOMAIN menu'
                  \/ menu'[tasks[i].path_hash].modified
                        # fs[tasks[i].data.path].mtime]_vars

====
